---- MODULE Spec2Model ----
(***************************************************************************)
(* go-servicefoundation: the service lifecycle of service.go.              *)
(*                                                                         *)
(* Run starts one coordinator goroutine and, for each of the three HTTP    *)
(* servers, one listener goroutine and one watcher goroutine.  They share  *)
(* the quitting flag, the 1-slot channels sendChan and receiveChan, and    *)
(* (listener and watcher of one server) the captured variable svr.         *)
(* The exit function built by NewExitFunc runs the shutdown callback and   *)
(* os.Exit in a goroutine of its own.                                      *)
(***************************************************************************)
EXTENDS Integers, Sequences, FiniteSets, TLC

VARIABLES
    proc,           \* "running", "exited" (os.Exit) or "crashed" (unrecovered panic)
    exitStatus,     \* << >> while no os.Exit happened, then <<code>>
    ctxDone,        \* ctx.Done() is closed
    sigs,           \* number of signals buffered in sigs
    done,           \* number of values buffered in done
    sendChan,       \* number of values buffered in s.sendChan
    receiveChan,    \* number of values buffered in s.receiveChan
    quitting,       \* s.quitting
    pcMain,         \* position of the goroutine that called Run
    pcCoord,        \* position of the coordinator goroutine of Run
    trigger,        \* the select case the coordinator took
    pcListener,     \* per server: position of the listener goroutine
    pcWatcher,      \* per server: position of the watcher goroutine
    svr,            \* per server: the captured variable svr, "ptr" or "nil"
    srvClosed,      \* per server: Close() has been called on the http.Server
    closeCalls,     \* per server: number of svr.Close() calls
    inflight,       \* per server: requests being served
    aborted,        \* per server: requests whose connection Close() cut
    accepted,       \* requests accepted so far, all servers
    quittingWrites, \* number of assignments to s.quitting
    coordSends,     \* number of sends of the coordinator on sendChan
    exitCalls,      \* number of calls of the exit function
    exitCode,       \* the code the exit function was called with
    pcExit,         \* position of the goroutine of the exit function
    shutdownFunc,   \* TRUE iff a shutdown callback was supplied (not nil)
    callbackCalls,  \* number of calls of the shutdown callback
    callbackState,  \* "none", "running", "returned" or "faulted"
    slept,          \* the 500 ms delay of the exit goroutine was taken
    pcCaller,       \* position of a direct caller of the exit function
    argCode,        \* the code a direct caller passes
    wrapCalls,      \* the calls of s.wrapHandler.Wrap, in order
    handleCalls,    \* the calls of router.Router.Handle, in order
    addRouteCalls,  \* number of calls of AddRoute
    lastAddRoute,   \* the arguments of the last call of AddRoute, << >> if none
    pcPipe,         \* middleware pipeline: "idle", "input", "composed", "dispatched"
    pipeChain,      \* the chain of middleware kinds given to the pipeline
    pipeHandler,    \* what the base handler does when it is invoked
    pipeComposed,   \* the composed handler: the wrappers around the base handler
    pipeWarnings,   \* warnings logged while composing
    pipeOut         \* the outcome of one dispatch of the composed handler

vars == <<proc, exitStatus, ctxDone, sigs, done, sendChan, receiveChan, quitting,
          pcMain, pcCoord, trigger, pcListener, pcWatcher, svr, srvClosed,
          closeCalls, inflight, aborted, accepted, quittingWrites, coordSends,
          exitCalls, exitCode, pcExit, shutdownFunc, callbackCalls,
          callbackState, slept, pcCaller, argCode, wrapCalls, handleCalls,
          addRouteCalls, lastAddRoute, pcPipe, pipeChain, pipeHandler,
          pipeComposed, pipeWarnings, pipeOut>>

svcVars == <<ctxDone, sigs, done, sendChan, receiveChan, quitting, pcMain,
             pcCoord, trigger, pcListener, pcWatcher, svr, srvClosed,
             closeCalls, inflight, aborted, accepted, quittingWrites, coordSends>>

exitVars == <<exitCalls, exitCode, pcExit, callbackCalls, callbackState, slept>>

pipeVars == <<pcPipe, pipeChain, pipeHandler, pipeComposed, pipeWarnings, pipeOut>>

routeVars == <<wrapCalls, handleCalls, addRouteCalls, lastAddRoute, pipeVars>>

(***************************************************************************)
(* Bounds of the model.                                                    *)
(***************************************************************************)
MaxRequests == 1
MaxCode == 5
MaxChain == 2
MaxPaths == 2
MaxMethods == 2
MaxAddRoutes == 1
MaxPipeChain == 3

(***************************************************************************)
(* Program constants.                                                      *)
(***************************************************************************)
SendChanCap == 1
ReceiveChanCap == 1
SigsCap == 1
DoneCap == 1

Servers == {"readiness", "internal", "public"}

Running == proc = "running"

(***************************************************************************)
(* Route registration: addRoute and the three run...Server functions.      *)
(* wrapCalls and handleCalls are held in a record st = [wraps, handles].   *)
(***************************************************************************)
publicSubsystem == "public"

DefaultMiddlewares == <<"PanicTo500", "RequestLogging", "NoCaching">>

MethodsForGet == <<"GET">>

RECURSIVE HandleEach(_, _, _, _, _)
HandleEachMutantFirstMethodOnly(handles, router, methods, path, wrapped) ==
    IF methods = << >> THEN handles
    ELSE Append(handles, [router |-> router, method |-> Head(methods),
                          path |-> path, handler |-> wrapped])

HandleEach(handles, router, methods, path, wrapped) ==
    IF methods = << >> THEN handles
    ELSE HandleEach(Append(handles, [router |-> router, method |-> Head(methods),
                                     path |-> path, handler |-> wrapped]),
                    router, Tail(methods), path, wrapped)

\* custom and requested are ghost fields: custom is TRUE for the calls that
\* come through AddRoute, requested is the chain the caller of AddRoute (or
\* the run...Server function) wrote.
RECURSIVE addRoute(_, _, _, _, _, _, _, _, _, _)
addRoute(st, custom, requested, router, subsystem, name, routes, methods, middlewares, handler) ==
    IF routes = << >> THEN st
    ELSE LET w == Append(st.wraps, [subsystem |-> subsystem, name |-> name,
                                    middlewares |-> middlewares, handler |-> handler,
                                    custom |-> custom, requested |-> requested])
             h == HandleEach(st.handles, router, methods, Head(routes), Len(w))
         IN  addRoute([wraps |-> w, handles |-> h], custom, requested, router,
                      subsystem, name, Tail(routes), methods, middlewares, handler)

AddRouteMutantPrependsDefaults(middlewares) == DefaultMiddlewares \o middlewares

\* The chain AddRoute hands on to addRoute.
AddRouteChain(middlewares) == middlewares

AddRouteCall(st, name, routes, methods, middlewares, handler) ==
    addRoute(st, TRUE, middlewares, "public", publicSubsystem, name, routes, methods,
             AddRouteChain(middlewares), handler)

readinessRoutes(st) ==
    LET a == addRoute(st, FALSE, DefaultMiddlewares, "readiness", "readiness", "root", <<"/">>,
                      MethodsForGet, DefaultMiddlewares, "RootHandler")
        b == addRoute(a, FALSE, DefaultMiddlewares, "readiness", "readiness", "liveness",
                      <<"/service/liveness">>, MethodsForGet, DefaultMiddlewares,
                      "LivenessHandler")
    IN  addRoute(b, FALSE, DefaultMiddlewares, "readiness", "readiness", "readiness",
                 <<"/service/readiness">>, MethodsForGet, DefaultMiddlewares,
                 "ReadinessHandler")

internalRoutes(st) ==
    LET a == addRoute(st, FALSE, DefaultMiddlewares, "internal", "internal", "root", <<"/">>,
                      MethodsForGet, DefaultMiddlewares, "RootHandler")
        b == addRoute(a, FALSE, DefaultMiddlewares, "internal", "internal", "health_check",
                      <<"/health_check", "/healthz">>, MethodsForGet,
                      DefaultMiddlewares, "HealthHandler")
        c == addRoute(b, FALSE, DefaultMiddlewares, "internal", "internal", "metrics", <<"/metrics">>,
                      MethodsForGet, DefaultMiddlewares, "MetricsHandler")
    IN  addRoute(c, FALSE, DefaultMiddlewares, "internal", "internal", "quit", <<"/quit">>,
                 MethodsForGet, DefaultMiddlewares, "QuitHandler")

publicRoutes(st) ==
    LET a == addRoute(st, FALSE, DefaultMiddlewares, "public", publicSubsystem, "root", <<"/">>,
                      MethodsForGet, DefaultMiddlewares, "RootHandler")
        b == addRoute(a, FALSE, DefaultMiddlewares, "public", publicSubsystem, "version",
                      <<"/service/version">>, MethodsForGet, DefaultMiddlewares,
                      "VersionHandler")
        c == addRoute(b, FALSE, DefaultMiddlewares, "public", publicSubsystem, "liveness",
                      <<"/service/liveness">>, MethodsForGet, DefaultMiddlewares,
                      "LivenessHandler")
    IN  addRoute(c, FALSE, DefaultMiddlewares, "public", publicSubsystem, "readiness",
                 <<"/service/readiness">>, MethodsForGet, DefaultMiddlewares,
                 "ReadinessHandler")

builtinRoutes(s, st) ==
    CASE s = "readiness" -> readinessRoutes(st)
      [] s = "internal"  -> internalRoutes(st)
      [] s = "public"    -> publicRoutes(st)

(***************************************************************************)
(* The triggers, raised by the environment.                                *)
(***************************************************************************)
\* The caller of Run cancels ctx.
CancelCtx ==
    /\ Running
    /\ ~ctxDone
    /\ ctxDone' = TRUE
    /\ UNCHANGED <<proc, exitStatus, sigs, done, sendChan, receiveChan, quitting,
                   pcMain, pcCoord, trigger, pcListener, pcWatcher, svr, srvClosed,
                   closeCalls, inflight, aborted, accepted, quittingWrites,
                   coordSends, shutdownFunc, pcCaller, argCode>>
    /\ UNCHANGED exitVars
    /\ UNCHANGED routeVars

\* The OS delivers SIGINT or SIGTERM; signal.Notify buffers it in sigs when
\* there is room and drops it otherwise.
DeliverSignal ==
    /\ Running
    /\ pcMain # "init"
    /\ sigs < SigsCap
    /\ sigs' = sigs + 1
    /\ UNCHANGED <<proc, exitStatus, ctxDone, done, sendChan, receiveChan, quitting,
                   pcMain, pcCoord, trigger, pcListener, pcWatcher, svr, srvClosed,
                   closeCalls, inflight, aborted, accepted, quittingWrites,
                   coordSends, shutdownFunc, pcCaller, argCode>>
    /\ UNCHANGED exitVars
    /\ UNCHANGED routeVars

(***************************************************************************)
(* The exit function of NewExitFunc.  ExitFuncCall is the part that runs   *)
(* in the caller: it spawns the goroutine.                                 *)
(***************************************************************************)
ExitFuncCall(code) ==
    /\ exitCalls' = exitCalls + 1
    /\ exitCode' = code
    /\ pcExit' = "checkFunc"
    /\ UNCHANGED <<callbackCalls, callbackState, slept>>

ExitDelayMutantAlways(code) == TRUE

\* The condition of the 500 ms delay: code != 0.
ExitDelay(code) == code # 0

ExitCheckFunc ==
    /\ Running
    /\ pcExit = "checkFunc"
    /\ IF shutdownFunc
       THEN /\ callbackCalls' = callbackCalls + 1
            /\ callbackState' = "running"
            /\ pcExit' = "callback"
       ELSE /\ pcExit' = "checkCode"
            /\ UNCHANGED <<callbackCalls, callbackState>>
    /\ UNCHANGED <<exitCalls, exitCode, slept>>
    /\ UNCHANGED <<proc, exitStatus, shutdownFunc, pcCaller, argCode>>
    /\ UNCHANGED svcVars
    /\ UNCHANGED routeVars

ExitCallbackReturns ==
    /\ Running
    /\ pcExit = "callback"
    /\ callbackState' = "returned"
    /\ pcExit' = "checkCode"
    /\ UNCHANGED <<exitCalls, exitCode, callbackCalls, slept>>
    /\ UNCHANGED <<proc, exitStatus, shutdownFunc, pcCaller, argCode>>
    /\ UNCHANGED svcVars
    /\ UNCHANGED routeVars

\* The callback panics: nothing in the goroutine recovers, so the Go
\* runtime ends the process before os.Exit(code) is reached.
ExitCallbackFaults ==
    /\ Running
    /\ pcExit = "callback"
    /\ callbackState' = "faulted"
    /\ pcExit' = "panicked"
    /\ proc' = "crashed"
    /\ UNCHANGED <<exitCalls, exitCode, callbackCalls, slept>>
    /\ UNCHANGED <<exitStatus, shutdownFunc, pcCaller, argCode>>
    /\ UNCHANGED svcVars
    /\ UNCHANGED routeVars

\* if code != 0 { time.Sleep(500 * time.Millisecond) }
ExitCheckCode ==
    /\ Running
    /\ pcExit = "checkCode"
    /\ slept' = ExitDelay(exitCode)
    /\ pcExit' = "osExit"
    /\ UNCHANGED <<exitCalls, exitCode, callbackCalls, callbackState>>
    /\ UNCHANGED <<proc, exitStatus, shutdownFunc, pcCaller, argCode>>
    /\ UNCHANGED svcVars
    /\ UNCHANGED routeVars

\* log.Debug(...); os.Exit(code)
ExitOsExit ==
    /\ Running
    /\ pcExit = "osExit"
    /\ proc' = "exited"
    /\ exitStatus' = <<exitCode>>
    /\ pcExit' = "exited"
    /\ UNCHANGED <<exitCalls, exitCode, callbackCalls, callbackState, slept>>
    /\ UNCHANGED <<shutdownFunc, pcCaller, argCode>>
    /\ UNCHANGED svcVars
    /\ UNCHANGED routeVars

\* A holder of the ExitFunc value calls it with argCode.
CallerCall ==
    /\ Running
    /\ pcCaller = "call"
    /\ ExitFuncCall(argCode)
    /\ pcCaller' = "sleep"
    /\ UNCHANGED <<proc, exitStatus, shutdownFunc, argCode>>
    /\ UNCHANGED svcVars
    /\ UNCHANGED routeVars

\* time.Sleep(1 * time.Millisecond), then the exit function returns.
CallerReturn ==
    /\ Running
    /\ pcCaller = "sleep"
    /\ pcCaller' = "returned"
    /\ UNCHANGED <<proc, exitStatus, shutdownFunc, argCode>>
    /\ UNCHANGED svcVars
    /\ UNCHANGED exitVars
    /\ UNCHANGED routeVars

(***************************************************************************)
(* Run: the calling goroutine.                                             *)
(***************************************************************************)
procVars == <<proc, exitStatus>>
cfgVars == <<shutdownFunc, pcCaller, argCode>>
envVars == <<ctxDone, sigs>>
reqVars == <<inflight, aborted, accepted>>
srvVars == <<pcListener, pcWatcher, svr, srvClosed, closeCalls>>

\* make(sigs), make(done), signal.Notify, go func() { select ... }()
MainSpawnCoord ==
    /\ Running
    /\ pcMain = "init"
    /\ pcMain' = "readiness"
    /\ pcCoord' = "select"
    /\ UNCHANGED <<done, sendChan, receiveChan, quitting, trigger, quittingWrites,
                   coordSends>>
    /\ UNCHANGED <<procVars, cfgVars, envVars, reqVars, srvVars, exitVars, routeVars>>

NextServer(s) ==
    CASE s = "readiness" -> "internal"
      [] s = "internal"  -> "public"
      [] s = "public"    -> "waitDone"

\* runReadinessServer, runInternalServer, runPublicServer: the built-in
\* routes are registered, then runHTTPServer creates svr and starts the
\* listener goroutine and the watcher goroutine.
MainRunServer(s) ==
    /\ Running
    /\ pcMain = s
    /\ LET st == builtinRoutes(s, [wraps |-> wrapCalls, handles |-> handleCalls])
       IN  /\ wrapCalls' = st.wraps
           /\ handleCalls' = st.handles
    /\ svr' = [svr EXCEPT ![s] = "ptr"]
    /\ pcListener' = [pcListener EXCEPT ![s] = "start"]
    /\ pcWatcher' = [pcWatcher EXCEPT ![s] = "wait"]
    /\ pcMain' = NextServer(s)
    /\ UNCHANGED <<done, sendChan, receiveChan, quitting, pcCoord, trigger,
                   quittingWrites, coordSends, srvClosed, closeCalls, addRouteCalls,
                   lastAddRoute>>
    /\ UNCHANGED <<procVars, cfgVars, envVars, reqVars, exitVars, pipeVars>>

\* <-done
MainWaitDone ==
    /\ Running
    /\ pcMain = "waitDone"
    /\ done > 0
    /\ done' = done - 1
    /\ pcMain' = "returned"
    /\ UNCHANGED <<sendChan, receiveChan, quitting, pcCoord, trigger,
                   quittingWrites, coordSends>>
    /\ UNCHANGED <<procVars, cfgVars, envVars, reqVars, srvVars, exitVars, routeVars>>

(***************************************************************************)
(* Run: the coordinator goroutine.                                         *)
(***************************************************************************)
CoordUnchanged ==
    /\ UNCHANGED <<pcMain, done>>
    /\ UNCHANGED <<procVars, cfgVars, reqVars, srvVars, routeVars>>

\* case <-s.receiveChan:
CoordSelectListener ==
    /\ Running
    /\ pcCoord = "select"
    /\ receiveChan > 0
    /\ receiveChan' = receiveChan - 1
    /\ trigger' = "listener"
    /\ pcCoord' = "check"
    /\ UNCHANGED <<sendChan, quitting, quittingWrites, coordSends, envVars, exitVars>>
    /\ CoordUnchanged

\* case <-ctx.Done():
CoordSelectCtx ==
    /\ Running
    /\ pcCoord = "select"
    /\ ctxDone
    /\ trigger' = "ctx"
    /\ pcCoord' = "ctxSet"
    /\ UNCHANGED <<sendChan, receiveChan, quitting, quittingWrites, coordSends,
                   envVars, exitVars>>
    /\ CoordUnchanged

\* s.quitting = true (in the ctx case)
CoordCtxSetMutantNoWrite ==
    /\ Running
    /\ pcCoord = "ctxSet"
    /\ pcCoord' = "ctxSend"
    /\ UNCHANGED <<sendChan, receiveChan, quitting, quittingWrites, trigger,
                   coordSends, envVars, exitVars>>
    /\ CoordUnchanged

CoordCtxSet ==
    /\ Running
    /\ pcCoord = "ctxSet"
    /\ quitting' = TRUE
    /\ quittingWrites' = quittingWrites + 1
    /\ pcCoord' = "ctxSend"
    /\ UNCHANGED <<sendChan, receiveChan, trigger, coordSends, envVars, exitVars>>
    /\ CoordUnchanged

\* s.sendChan <- true (in the ctx case)
CoordCtxSend ==
    /\ Running
    /\ pcCoord = "ctxSend"
    /\ sendChan < SendChanCap
    /\ sendChan' = sendChan + 1
    /\ coordSends' = coordSends + 1
    /\ pcCoord' = "check"
    /\ UNCHANGED <<receiveChan, quitting, trigger, quittingWrites, envVars, exitVars>>
    /\ CoordUnchanged

\* case <-sigs:
CoordSelectSignal ==
    /\ Running
    /\ pcCoord = "select"
    /\ sigs > 0
    /\ sigs' = sigs - 1
    /\ trigger' = "signal"
    /\ pcCoord' = "check"
    /\ UNCHANGED <<sendChan, receiveChan, quitting, quittingWrites, coordSends,
                   ctxDone, exitVars>>
    /\ CoordUnchanged

CoordGuardMutantAlways(q) == TRUE

\* if !s.quitting
CoordGuard(q) == ~q

CoordCheck ==
    /\ Running
    /\ pcCoord = "check"
    /\ pcCoord' = IF CoordGuard(quitting) THEN "set" ELSE "exit"
    /\ UNCHANGED <<sendChan, receiveChan, quitting, trigger, quittingWrites,
                   coordSends, envVars, exitVars>>
    /\ CoordUnchanged

\* s.quitting = true
CoordSet ==
    /\ Running
    /\ pcCoord = "set"
    /\ quitting' = TRUE
    /\ quittingWrites' = quittingWrites + 1
    /\ pcCoord' = "send"
    /\ UNCHANGED <<sendChan, receiveChan, trigger, coordSends, envVars, exitVars>>
    /\ CoordUnchanged

\* s.sendChan <- true
CoordSend ==
    /\ Running
    /\ pcCoord = "send"
    /\ sendChan < SendChanCap
    /\ sendChan' = sendChan + 1
    /\ coordSends' = coordSends + 1
    /\ pcCoord' = "exit"
    /\ UNCHANGED <<receiveChan, quitting, trigger, quittingWrites, envVars, exitVars>>
    /\ CoordUnchanged

\* The code Run passes to the exit function, whatever the trigger.
RunExitCode(trig) == 0

\* s.exitFunc(0), up to the spawn of its goroutine
CoordExit ==
    /\ Running
    /\ pcCoord = "exit"
    /\ ExitFuncCall(RunExitCode(trigger))
    /\ pcCoord' = "exitSleep"
    /\ UNCHANGED <<sendChan, receiveChan, quitting, trigger, quittingWrites,
                   coordSends, envVars>>
    /\ CoordUnchanged

\* the 1 ms sleep of the exit function, and its return
CoordExitReturn ==
    /\ Running
    /\ pcCoord = "exitSleep"
    /\ pcCoord' = "sendDone"
    /\ UNCHANGED <<sendChan, receiveChan, quitting, trigger, quittingWrites,
                   coordSends, envVars, exitVars>>
    /\ CoordUnchanged

\* done <- true
CoordSendDone ==
    /\ Running
    /\ pcCoord = "sendDone"
    /\ done < DoneCap
    /\ done' = done + 1
    /\ pcCoord' = "end"
    /\ UNCHANGED <<sendChan, receiveChan, quitting, trigger, quittingWrites,
                   coordSends, envVars, exitVars>>
    /\ UNCHANGED pcMain
    /\ UNCHANGED <<procVars, cfgVars, reqVars, srvVars, routeVars>>

(***************************************************************************)
(* runHTTPServer: the listener goroutine of server s.                      *)
(***************************************************************************)
ListenerUnchanged ==
    /\ UNCHANGED <<ctxDone, sigs, done, sendChan, quitting, pcMain, pcCoord, trigger,
                   pcWatcher, svr, srvClosed, closeCalls, quittingWrites, coordSends>>
    /\ UNCHANGED <<exitStatus, cfgVars, reqVars, exitVars, routeVars>>

\* svr.ListenAndServe() is called: the goroutine reads the captured svr.
\* When the watcher has already set it to nil the call dereferences nil,
\* and the unrecovered panic ends the process; otherwise the server serves.
\* The read is not synchronised with the write of the watcher, so it may
\* also still see the pointer after the watcher has written nil.
ListenerStart(s) ==
    /\ Running
    /\ pcListener[s] = "start"
    /\ \/ /\ svr[s] = "nil"
          /\ proc' = "crashed"
          /\ pcListener' = [pcListener EXCEPT ![s] = "panicked"]
       \/ /\ proc' = proc
          /\ pcListener' = [pcListener EXCEPT ![s] = "serving"]
    /\ UNCHANGED receiveChan
    /\ ListenerUnchanged

\* ListenAndServe returns http.ErrServerClosed: Close() was called, before
\* or while it served.
ListenerServeClosed(s) ==
    /\ Running
    /\ pcListener[s] = "serving"
    /\ srvClosed[s]
    /\ pcListener' = [pcListener EXCEPT ![s] = "report"]
    /\ UNCHANGED <<proc, receiveChan>>
    /\ ListenerUnchanged

\* ListenAndServe returns with a bind or accept error.
ListenerFault(s) ==
    /\ Running
    /\ pcListener[s] = "serving"
    /\ ~srvClosed[s]
    /\ pcListener' = [pcListener EXCEPT ![s] = "report"]
    /\ UNCHANGED <<proc, receiveChan>>
    /\ ListenerUnchanged

\* s.receiveChan <- true
ListenerReport(s) ==
    /\ Running
    /\ pcListener[s] = "report"
    /\ receiveChan < ReceiveChanCap
    /\ receiveChan' = receiveChan + 1
    /\ pcListener' = [pcListener EXCEPT ![s] = "done"]
    /\ UNCHANGED proc
    /\ ListenerUnchanged

(***************************************************************************)
(* runHTTPServer: the watcher goroutine of server s.                       *)
(***************************************************************************)
WatcherUnchanged ==
    /\ UNCHANGED <<ctxDone, sigs, done, receiveChan, quitting, pcMain, pcCoord,
                   trigger, pcListener, quittingWrites, coordSends, accepted>>
    /\ UNCHANGED <<procVars, cfgVars, exitVars, routeVars>>

\* case sig := <-s.sendChan:
WatcherReceive(s) ==
    /\ Running
    /\ pcWatcher[s] = "wait"
    /\ sendChan > 0
    /\ sendChan' = sendChan - 1
    /\ pcWatcher' = [pcWatcher EXCEPT ![s] = "check"]
    /\ UNCHANGED <<svr, srvClosed, closeCalls, inflight, aborted>>
    /\ WatcherUnchanged

\* The number of the n requests in flight that svr.Close() cuts: Close
\* closes every connection at once, the active ones included.
CloseAborts(n) == n

\* if svr != nil { svr.Close() ...
WatcherClose(s) ==
    /\ Running
    /\ pcWatcher[s] = "check"
    /\ IF svr[s] # "nil"
       THEN /\ srvClosed' = [srvClosed EXCEPT ![s] = TRUE]
            /\ closeCalls' = [closeCalls EXCEPT ![s] = @ + 1]
            /\ aborted' = [aborted EXCEPT ![s] = @ + CloseAborts(inflight[s])]
            /\ inflight' = [inflight EXCEPT ![s] = @ - CloseAborts(inflight[s])]
            /\ pcWatcher' = [pcWatcher EXCEPT ![s] = "setNil"]
       ELSE /\ pcWatcher' = [pcWatcher EXCEPT ![s] = "resend"]
            /\ UNCHANGED <<srvClosed, closeCalls, aborted, inflight>>
    /\ UNCHANGED <<svr, sendChan>>
    /\ WatcherUnchanged

\* ... svr = nil }
WatcherSetNil(s) ==
    /\ Running
    /\ pcWatcher[s] = "setNil"
    /\ svr' = [svr EXCEPT ![s] = "nil"]
    /\ pcWatcher' = [pcWatcher EXCEPT ![s] = "resend"]
    /\ UNCHANGED <<sendChan, srvClosed, closeCalls, inflight, aborted>>
    /\ WatcherUnchanged

\* s.sendChan <- sig
WatcherResendMutantDrops(s) ==
    /\ Running
    /\ pcWatcher[s] = "resend"
    /\ pcWatcher' = [pcWatcher EXCEPT ![s] = "done"]
    /\ UNCHANGED <<svr, sendChan, srvClosed, closeCalls, inflight, aborted>>
    /\ WatcherUnchanged

WatcherResend(s) ==
    /\ Running
    /\ pcWatcher[s] = "resend"
    /\ sendChan < SendChanCap
    /\ sendChan' = sendChan + 1
    /\ pcWatcher' = [pcWatcher EXCEPT ![s] = "done"]
    /\ UNCHANGED <<svr, srvClosed, closeCalls, inflight, aborted>>
    /\ WatcherUnchanged

(***************************************************************************)
(* Requests served by the http.Server of server s (Handler: router.Router).*)
(***************************************************************************)
RequestUnchanged ==
    /\ UNCHANGED <<ctxDone, sigs, done, sendChan, receiveChan, quitting, pcMain,
                   pcCoord, trigger, pcListener, pcWatcher, svr, srvClosed,
                   closeCalls, aborted, quittingWrites, coordSends>>
    /\ UNCHANGED <<procVars, cfgVars, exitVars, routeVars>>

AcceptRequest(s) ==
    /\ Running
    /\ pcListener[s] = "serving"
    /\ ~srvClosed[s]
    /\ accepted < MaxRequests
    /\ accepted' = accepted + 1
    /\ inflight' = [inflight EXCEPT ![s] = @ + 1]
    /\ RequestUnchanged

FinishRequest(s) ==
    /\ Running
    /\ inflight[s] > 0
    /\ inflight' = [inflight EXCEPT ![s] = @ - 1]
    /\ UNCHANGED accepted
    /\ RequestUnchanged

(***************************************************************************)
(* The service: NewCustomService, then Run.                                *)
(***************************************************************************)
InitService ==
    /\ proc = "running"
    /\ exitStatus = << >>
    /\ ctxDone = FALSE
    /\ sigs = 0
    /\ done = 0
    /\ sendChan = 0
    /\ receiveChan = 0
    /\ quitting = FALSE
    /\ pcMain = "init"
    /\ pcCoord = "unborn"
    /\ trigger = "none"
    /\ pcListener = [s \in Servers |-> "unborn"]
    /\ pcWatcher = [s \in Servers |-> "unborn"]
    /\ svr = [s \in Servers |-> "unset"]
    /\ srvClosed = [s \in Servers |-> FALSE]
    /\ closeCalls = [s \in Servers |-> 0]
    /\ inflight = [s \in Servers |-> 0]
    /\ aborted = [s \in Servers |-> 0]
    /\ accepted = 0
    /\ quittingWrites = 0
    /\ coordSends = 0
    /\ exitCalls = 0
    /\ exitCode = 0
    /\ pcExit = "unborn"
    /\ callbackCalls = 0
    /\ callbackState = "none"
    /\ slept = FALSE
    /\ wrapCalls = << >>
    /\ handleCalls = << >>
    /\ addRouteCalls = 0
    /\ lastAddRoute = << >>

PipeIdle ==
    /\ pcPipe = "idle"
    /\ pipeChain = << >>
    /\ pipeHandler = [writes |-> 0, faults |-> FALSE]
    /\ pipeComposed = << >>
    /\ pipeWarnings = 0
    /\ pipeOut = << >>

Init ==
    /\ InitService
    /\ PipeIdle
    /\ shutdownFunc \in BOOLEAN
    /\ pcCaller = "none"
    /\ argCode = 0

ExitGoroutine ==
    \/ ExitCheckFunc
    \/ ExitCallbackReturns
    \/ ExitCallbackFaults
    \/ ExitCheckCode
    \/ ExitOsExit

Coordinator ==
    \/ CoordSelectListener
    \/ CoordSelectCtx
    \/ CoordCtxSet
    \/ CoordCtxSend
    \/ CoordSelectSignal
    \/ CoordCheck
    \/ CoordSet
    \/ CoordSend
    \/ CoordExit
    \/ CoordExitReturn
    \/ CoordSendDone

Main ==
    \/ MainSpawnCoord
    \/ \E s \in Servers : MainRunServer(s)
    \/ MainWaitDone

Listener(s) ==
    \/ ListenerStart(s)
    \/ ListenerServeClosed(s)
    \/ ListenerReport(s)

\* The watcher goroutine of runHTTPServer: one select, run once.
WatcherMutantLoops(s) ==
    \/ WatcherReceive(s)
    \/ /\ Running
       /\ pcWatcher[s] = "check"
       /\ srvClosed' = [srvClosed EXCEPT ![s] = TRUE]
       /\ closeCalls' = [closeCalls EXCEPT ![s] = @ + 1]
       /\ aborted' = [aborted EXCEPT ![s] = @ + CloseAborts(inflight[s])]
       /\ inflight' = [inflight EXCEPT ![s] = @ - CloseAborts(inflight[s])]
       /\ pcWatcher' = [pcWatcher EXCEPT ![s] = "resend"]
       /\ UNCHANGED <<svr, sendChan>>
       /\ WatcherUnchanged
    \/ /\ Running
       /\ pcWatcher[s] = "resend"
       /\ sendChan < SendChanCap
       /\ sendChan' = sendChan + 1
       /\ pcWatcher' = [pcWatcher EXCEPT ![s] = "wait"]
       /\ UNCHANGED <<svr, srvClosed, closeCalls, inflight, aborted>>
       /\ WatcherUnchanged

Watcher(s) ==
    \/ WatcherReceive(s)
    \/ WatcherClose(s)
    \/ WatcherSetNil(s)
    \/ WatcherResend(s)

Next ==
    \/ CancelCtx
    \/ DeliverSignal
    \/ Main
    \/ Coordinator
    \/ ExitGoroutine
    \/ \E s \in Servers : Listener(s)
    \/ \E s \in Servers : ListenerFault(s)
    \/ \E s \in Servers : Watcher(s)

Spec == Init /\ [][Next]_vars

\* Every goroutine that can take a step eventually takes one; the triggers,
\* listener faults and incoming requests are up to the environment.
Fairness ==
    /\ WF_vars(Main)
    /\ WF_vars(Coordinator)
    /\ WF_vars(ExitGoroutine)
    /\ \A s \in Servers : WF_vars(Listener(s))
    /\ \A s \in Servers : WF_vars(Watcher(s))

FairSpec == Init /\ [][Next]_vars /\ Fairness

\* The service under load: clients send requests to the servers.  The
\* service is built without a shutdown callback.
ServeInit ==
    /\ InitService
    /\ PipeIdle
    /\ shutdownFunc = FALSE
    /\ pcCaller = "none"
    /\ argCode = 0

ServeNext ==
    \/ CancelCtx
    \/ DeliverSignal
    \/ Main
    \/ Coordinator
    \/ ExitCheckFunc
    \/ ExitCheckCode
    \/ ExitOsExit
    \/ \E s \in Servers : Listener(s)
    \/ \E s \in Servers : ListenerFault(s)
    \/ \E s \in Servers : Watcher(s)
    \/ \E s \in Servers : AcceptRequest(s)
    \/ \E s \in Servers : FinishRequest(s)

ServeSpec == ServeInit /\ [][ServeNext]_vars

(***************************************************************************)
(* The exit function called on its own, by a holder of the ExitFunc value  *)
(* (the quit handler gets it from SetHandlers), with any code.             *)
(***************************************************************************)
ExitCodes == 0 .. MaxCode

ExitInit ==
    /\ InitService
    /\ PipeIdle
    /\ shutdownFunc \in BOOLEAN
    /\ pcCaller = "call"
    /\ argCode \in ExitCodes

ExitNext ==
    \/ CallerCall
    \/ CallerReturn
    \/ ExitGoroutine

ExitSpec == ExitInit /\ [][ExitNext]_vars

(***************************************************************************)
(* AddRoute, called by the program that builds the service, before Run     *)
(* and while Run registers the built-in routes.                            *)
(***************************************************************************)
RECURSIVE SeqsUpTo(_, _)
SeqsUpTo(S, n) ==
    IF n = 0 THEN {<< >>}
    ELSE LET shorter == SeqsUpTo(S, n - 1)
         IN  shorter \cup {Append(q, x) : q \in shorter, x \in S}

Prefixes(q, n) == {SubSeq(q, 1, k) : k \in 0 .. (IF n < Len(q) THEN n ELSE Len(q))}

CustomPaths == <<"/ping", "/pong", "/peng", "/pang">>
CustomMethods == <<"GET", "POST", "PUT", "DELETE">>
CustomKinds == {"Counter", "Histogram"}

AddRoute ==
    /\ Running
    /\ pcMain = "init"
    /\ addRouteCalls < MaxAddRoutes
    /\ \E routes \in Prefixes(CustomPaths, MaxPaths),
          methods \in Prefixes(CustomMethods, MaxMethods),
          middlewares \in SeqsUpTo(CustomKinds, MaxChain) :
          LET st == AddRouteCall([wraps |-> wrapCalls, handles |-> handleCalls],
                                 "ping", routes, methods, middlewares, "PingHandler")
          IN  /\ wrapCalls' = st.wraps
              /\ handleCalls' = st.handles
              /\ lastAddRoute' = <<[routes |-> routes, methods |-> methods,
                                    wrapsBefore |-> Len(wrapCalls),
                                    handlesBefore |-> Len(handleCalls)]>>
    /\ addRouteCalls' = addRouteCalls + 1
    /\ UNCHANGED <<procVars, cfgVars, exitVars, pipeVars>>
    /\ UNCHANGED svcVars

RouteNext ==
    \/ AddRoute
    \/ MainSpawnCoord
    \/ \E s \in Servers : MainRunServer(s)

RouteSpec == Init /\ [][RouteNext]_vars

(***************************************************************************)
(* The middleware pipeline behind s.wrapHandler.Wrap: composing a chain of *)
(* middleware kinds around a base handler, and one dispatch of the result. *)
(***************************************************************************)
KnownKinds == {"CORS", "NoCaching", "Counter", "Histogram", "RequestLogging",
               "PanicTo500"}
UnknownKind == "Unknown"
PipeKinds == KnownKinds \cup {UnknownKind}

\* What a base handler may do: write a status (0: it writes none), then
\* return or fault.
HandlerWrites == {0, 200, 404}
PipeHandlers == [writes : HandlerWrites, faults : BOOLEAN]

\* Wrap for one kind.  A composed handler is the sequence of its wrappers,
\* the outermost first, around the base handler.  A known kind is put around
\* the handler; an unknown kind logs one warning and the handler is returned
\* as it is.
WrapOneMutantUnknownAsNoCaching(kind, comp) ==
    [handler |-> <<IF kind \in KnownKinds THEN kind ELSE "NoCaching">> \o comp.handler,
     warnings |-> comp.warnings]

WrapOne(kind, comp) ==
    IF kind \in KnownKinds
    THEN [handler |-> <<kind>> \o comp.handler, warnings |-> comp.warnings]
    ELSE [handler |-> comp.handler, warnings |-> comp.warnings + 1]

\* The chain [A, B] gives A(B(base)): the last kind wraps first, and the
\* empty chain gives the base handler.
RECURSIVE Compose(_)
Compose(chain) ==
    IF chain = << >>
    THEN [handler |-> << >>, warnings |-> 0]
    ELSE WrapOne(Head(chain), Compose(Tail(chain)))

\* The response sink and the observers of one dispatch: status 0 means that
\* no status has been written.
NewSink ==
    [status |-> 0, headers |-> {}, fault |-> FALSE, hCalls |-> 0, errors |-> 0,
     counts |-> << >>, hist |-> 0]

\* The base handler is invoked: it writes its status, then returns or faults.
BaseHandler(h, out) ==
    [out EXCEPT !.hCalls = @ + 1,
                !.status = IF @ = 0 THEN h.writes ELSE @,
                !.fault = h.faults]

\* No middleware kind short-circuits: each one dispatches to its inner
\* handler.
PassesMutantCorsShortCircuits(kind) == kind # "CORS"

Passes(kind) == TRUE

\* PanicTo500 forces 500 only if no status has been written.
RecoveredStatusMutantAlways500(status) == 500

RecoveredStatus(status) == IF status = 0 THEN 500 ELSE status

\* What a wrapper does before it dispatches to its inner handler.
Before(kind, out) ==
    CASE kind = "NoCaching" -> [out EXCEPT !.headers = @ \cup {"Cache-Control"}]
      [] kind = "CORS"      -> [out EXCEPT !.headers = @ \cup {"Access-Control-Allow-Origin"}]
      [] OTHER              -> out

\* What a wrapper does once its inner handler has returned or faulted.
\* PanicTo500 catches the fault and logs one error; Counter and Histogram
\* observe whatever the outcome, and let a fault pass on.  The debug line of
\* RequestLogging is not recorded.
After(kind, out) ==
    CASE kind = "PanicTo500" ->
             IF out.fault
             THEN [out EXCEPT !.fault = FALSE, !.errors = @ + 1,
                              !.status = RecoveredStatus(@)]
             ELSE out
      [] kind = "Counter"    -> [out EXCEPT !.counts = Append(@, out.status)]
      [] kind = "Histogram"  -> [out EXCEPT !.hist = @ + 1]
      [] OTHER               -> out

\* One dispatch of a composed handler.
RECURSIVE Serve(_, _, _)
Serve(handler, h, out) ==
    IF handler = << >>
    THEN BaseHandler(h, out)
    ELSE LET kind == Head(handler)
             pre == Before(kind, out)
         IN  After(kind, IF Passes(kind) THEN Serve(Tail(handler), h, pre) ELSE pre)

PipeInit ==
    /\ InitService
    /\ shutdownFunc = FALSE
    /\ pcCaller = "none"
    /\ argCode = 0
    /\ pcPipe = "input"
    /\ pipeChain \in SeqsUpTo(PipeKinds, MaxPipeChain)
    /\ pipeHandler \in PipeHandlers
    /\ pipeComposed = << >>
    /\ pipeWarnings = 0
    /\ pipeOut = NewSink

PipeUnchanged ==
    /\ UNCHANGED <<procVars, cfgVars, exitVars, pipeChain, pipeHandler>>
    /\ UNCHANGED <<wrapCalls, handleCalls, addRouteCalls, lastAddRoute>>
    /\ UNCHANGED svcVars

PipeCompose ==
    /\ pcPipe = "input"
    /\ pcPipe' = "composed"
    /\ LET comp == Compose(pipeChain)
       IN  /\ pipeComposed' = comp.handler
           /\ pipeWarnings' = comp.warnings
    /\ UNCHANGED pipeOut
    /\ PipeUnchanged

PipeDispatch ==
    /\ pcPipe = "composed"
    /\ pcPipe' = "dispatched"
    /\ pipeOut' = Serve(pipeComposed, pipeHandler, NewSink)
    /\ UNCHANGED <<pipeComposed, pipeWarnings>>
    /\ PipeUnchanged

PipeNext ==
    \/ PipeCompose
    \/ PipeDispatch

PipeSpec == PipeInit /\ [][PipeNext]_vars

(***************************************************************************)
(* Claims.                                                                 *)
(***************************************************************************)
\* Every action requires proc = "running": once the process has ended
\* (os.Exit or an unrecovered panic) no goroutine takes another step, so what
\* has not happened by then never happens.  The claims that something
\* eventually happens are stated on the states in which the process has
\* ended, where a finite run refutes them.

\* C1: for every interleaving of the three triggers Run calls the exit
\* function exactly once: never more than once, and never zero times once
\* the coordinator has taken a trigger (the process does not end without it).
C1_ExitExactlyOnce ==
    /\ exitCalls <= 1
    /\ (proc # "running" /\ trigger # "none" => exitCalls = 1)

\* C2: quitting is written at most once, from false to true, and is never
\* reset; the coordinator sends at most one stop-request on sendChan and
\* calls the exit function at most once, whatever further triggers arrive.
C2_QuittingSetOnce ==
    /\ [](/\ quittingWrites <= 1
          /\ coordSends <= 1
          /\ exitCalls <= 1
          /\ (quitting <=> quittingWrites = 1))
    /\ [][quitting => quitting']_vars

\* C2 witness: the coordinator has finished after the ctx trigger while a
\* signal and a listener report, both later triggers, are still pending.
C2_Witness ==
    /\ pcCoord = "end"
    /\ trigger = "ctx"
    /\ sigs = 1
    /\ receiveChan = 1
    /\ quitting
    /\ coordSends = 1
    /\ exitCalls = 1

\* runHTTPServer has run for the three servers and every listener has
\* read svr and entered ListenAndServe.
AllStarted == \A s \in Servers : pcListener[s] \in {"serving", "report", "done"}

\* C3: when the coordinator takes a trigger while the service runs, the
\* stop-request is sent, every server is closed and the exit function is
\* called by the time the exit sequence ends the process; and the
\* coordinator is never blocked on its send to sendChan.
C3_TriggerLeadsToShutdown ==
    /\ (proc = "exited" /\ trigger # "none" /\ AllStarted =>
            /\ coordSends = 1
            /\ \A s \in Servers : srvClosed[s]
            /\ exitCalls = 1)
    /\ (pcCoord \in {"ctxSend", "send"} => sendChan < SendChanCap)

\* C4: once the coordinator has sent the stop-request, every watcher that
\* runs receives it and closes its server by the time the exit sequence
\* ends the process.
C4_EveryWatcherCloses ==
    (/\ proc = "exited"
     /\ coordSends = 1
     /\ \A s \in Servers : pcWatcher[s] # "unborn")
        => \A s \in Servers : /\ pcWatcher[s] \in {"setNil", "resend", "done"}
                              /\ srvClosed[s]

\* C5: every listener goroutine whose ListenAndServe has returned can
\* complete its send on receiveChan: it never waits on a full receiveChan
\* that nobody will receive from again (the only receiver is the select of
\* the coordinator, which runs once).
C5_EveryListenerReports ==
    \A s \in Servers :
        ~(/\ pcListener[s] = "report"
          /\ receiveChan = ReceiveChanCap
          /\ pcCoord \notin {"unborn", "select"})

\* C6: the code Run passes to the exit function is 0 after a ctx or signal
\* trigger and non-zero after a listener trigger.
C6_ExitCodeByTrigger ==
    exitCalls > 0 =>
        /\ (trigger \in {"ctx", "signal"} => exitCode = 0)
        /\ (trigger = "listener" => exitCode # 0)

\* C7: a fault of the shutdown callback does not keep the exit sequence
\* from its termination step: after a fault the goroutine goes on towards
\* os.Exit, and the process never ends otherwise than by os.Exit with the
\* code the exit function was called with.
C7_CallbackFaultStillExits ==
    /\ (callbackState = "faulted" =>
            pcExit \in {"checkCode", "osExit", "exited"})
    /\ (proc # "running" => exitStatus = <<exitCode>>)

\* C8: the shutdown callback is called at most once and never when it is
\* nil; when os.Exit is reached it has been called exactly once if
\* supplied and has returned, and the 500 ms delay has been taken iff the
\* code is non-zero.
C8_ExitSequenceOrder ==
    /\ callbackCalls <= 1
    /\ (~shutdownFunc => callbackCalls = 0)
    /\ (pcExit \in {"osExit", "exited"} =>
            /\ callbackCalls = (IF shutdownFunc THEN 1 ELSE 0)
            /\ (shutdownFunc => callbackState = "returned")
            /\ (slept <=> exitCode # 0))

\* C8 witness: os.Exit was called with a non-zero code, after the supplied
\* callback returned and after the delay.
C8_Witness ==
    /\ pcExit = "exited"
    /\ shutdownFunc
    /\ callbackCalls = 1
    /\ callbackState = "returned"
    /\ exitCode # 0
    /\ slept
    /\ exitStatus = <<exitCode>>

\* C9 as claimed: a custom route's chain reaches Wrap as the default chain
\* followed by the caller's chain; built-in routes get the default chain.
C9_DefaultsPrepended ==
    \A i \in 1 .. Len(wrapCalls) :
        LET w == wrapCalls[i]
        IN  IF w.custom
            THEN w.middlewares = DefaultMiddlewares \o w.requested
            ELSE w.middlewares = DefaultMiddlewares

\* C9 amended: a custom route's chain reaches Wrap exactly as the caller
\* of AddRoute gave it, with no default middleware added; built-in routes
\* get exactly the default chain.
C9_ChainPassedAsGiven ==
    \A i \in 1 .. Len(wrapCalls) :
        LET w == wrapCalls[i]
        IN  IF w.custom
            THEN w.middlewares = w.requested
            ELSE w.middlewares = DefaultMiddlewares

\* C9 witness: a custom route with a two-element chain and a built-in
\* route have both been wrapped.
C9_Witness ==
    /\ \E i \in 1 .. Len(wrapCalls) :
          /\ wrapCalls[i].custom
          /\ Len(wrapCalls[i].requested) = 2
    /\ \E i \in 1 .. Len(wrapCalls) : ~wrapCalls[i].custom

\* C10: closing a server on the stop-request lets every request in flight
\* finish: no request is cut by the close.
C10_NoRequestAborted ==
    \A s \in Servers : aborted[s] = 0

\* C11: for every chain (of any length, the empty one included, with
\* duplicate and unknown kinds) and every base handler, one dispatch of the
\* composed handler invokes the base handler exactly once.
C11_HandlerInvokedOnce ==
    pcPipe = "dispatched" => pipeOut.hCalls = 1

C11_Witness ==
    /\ pcPipe = "dispatched"
    /\ pipeChain = <<"CORS", UnknownKind, "CORS">>
    /\ pipeHandler.faults
    /\ pipeOut.hCalls = 1

\* The chain without its unknown kinds, and the number of unknown kinds in it.
IsKnown(kind) == kind \in KnownKinds
IsUnknown(kind) == kind \notin KnownKinds
KnownOnly(chain) == SelectSeq(chain, IsKnown)
UnknownCount(chain) == Len(SelectSeq(chain, IsUnknown))

\* C12: composing a chain that holds an unknown kind never fails: every
\* occurrence of the unknown kind logs exactly one warning and leaves the
\* handler as it is, so the composed handler is the one of the chain without
\* the unknown kinds and one dispatch of it has the same outcome.
C12_UnknownKindSkipped ==
    /\ pcPipe # "input" =>
          /\ pipeWarnings = UnknownCount(pipeChain)
          /\ pipeComposed = Compose(KnownOnly(pipeChain)).handler
          /\ Compose(KnownOnly(pipeChain)).warnings = 0
    /\ pcPipe = "dispatched" =>
          pipeOut = Serve(Compose(KnownOnly(pipeChain)).handler, pipeHandler, NewSink)

C12_Witness ==
    /\ pcPipe = "dispatched"
    /\ pipeChain = <<UnknownKind, "Counter", UnknownKind>>
    /\ pipeWarnings = 2
    /\ pipeComposed = <<"Counter">>
    /\ Len(pipeOut.counts) = 1

\* The kinds that wrap the base handler in the composed handler.
Wrappers == {pipeComposed[i] : i \in 1 .. Len(pipeComposed)}

\* C13: if the base handler faults and PanicTo500 is one of its wrappers,
\* the fault is caught and logged as exactly one error, it does not leave
\* the composed handler, and the final status is 500 unless the handler had
\* written a status before it faulted, which is kept.
C13_FaultRecovered ==
    (pcPipe = "dispatched" /\ pipeHandler.faults /\ "PanicTo500" \in Wrappers) =>
        /\ ~pipeOut.fault
        /\ pipeOut.errors = 1
        /\ pipeOut.hCalls = 1
        /\ pipeOut.status = (IF pipeHandler.writes = 0 THEN 500 ELSE pipeHandler.writes)

C13_Witness ==
    /\ pcPipe = "dispatched"
    /\ pipeChain = <<"PanicTo500", "RequestLogging", "PanicTo500">>
    /\ pipeHandler = [writes |-> 404, faults |-> TRUE]
    /\ pipeOut.errors = 1
    /\ pipeOut.status = 404

\* The number of wrappers of one kind in the composed handler.
IsCounter(kind) == kind = "Counter"
IsHistogram(kind) == kind = "Histogram"

C15_ShutdownOrder ==
    /\ coordSends >= 1 => quitting
    /\ exitCalls >= 1 => coordSends = 1
    /\ (done > 0 \/ pcCoord = "end" \/ pcMain = "returned") => exitCalls = 1
    /\ \A s \in Servers :
          (closeCalls[s] > 0 \/ srvClosed[s] \/ pcWatcher[s] \notin {"unborn", "wait"})
             => quitting

C15_Witness ==
    /\ trigger = "signal"
    /\ pcCoord = "end"
    /\ quitting
    /\ coordSends = 1
    /\ exitCalls = 1
    /\ closeCalls["readiness"] = 1

\* C16: Run never returns before the process has terminated: main does not
\* get past the receive on done while the exit sequence (shutdown callback,
\* delay, os.Exit) is unfinished.
C16_RunReturnsAfterExit ==
    pcMain = "returned" => pcExit = "exited"

\* C17: passing the stop-request along never duplicates a close: the server
\* of every listener is closed at most once, after any number of watchers
\* have received and re-sent the stop-request.
C17_ClosedAtMostOnce ==
    \A s \in Servers : closeCalls[s] <= 1

C17_Witness ==
    /\ \A s \in Servers : pcWatcher[s] = "done" /\ closeCalls[s] = 1
    /\ sendChan = 1

\* The last call of AddRoute, while nothing has been registered after it:
\* its path list and method list, and the calls of Wrap and Handle it made.
AddRouteJustReturned == pcMain = "init" /\ lastAddRoute # << >>
LastRoutes == lastAddRoute[1].routes
LastMethods == lastAddRoute[1].methods
WrapsAdded == Len(wrapCalls) - lastAddRoute[1].wrapsBefore
HandlesAdded == Len(handleCalls) - lastAddRoute[1].handlesBefore
HandleOf(p, m) == handleCalls[lastAddRoute[1].handlesBefore + (p - 1) * Len(LastMethods) + m]

\* Handle has been called once for each path and method of the lists, with
\* that path and method, and for nothing else.
OneHandlePerCombination ==
    /\ HandlesAdded = Len(LastRoutes) * Len(LastMethods)
    /\ \A p \in 1 .. Len(LastRoutes), m \in 1 .. Len(LastMethods) :
          /\ HandleOf(p, m).router = "public"
          /\ HandleOf(p, m).path = LastRoutes[p]
          /\ HandleOf(p, m).method = LastMethods[m]

\* C18 as stated: registering a route with path list P and method list M
\* builds one composed handler for each (path, method), |P| x |M| calls of
\* the pipeline, and registers exactly one handler for each combination and
\* for no other pair.
C18_WrapPerCombination ==
    AddRouteJustReturned =>
        /\ WrapsAdded = Len(LastRoutes) * Len(LastMethods)
        /\ OneHandlePerCombination

\* C18, amended: one composed handler is built for each path, |P| calls of
\* the pipeline; the composed handler of a path is registered for every
\* method of the list, so that Handle is called once for each combination of
\* a path and a method and for no other pair.
C18_WrapPerPath ==
    AddRouteJustReturned =>
        /\ WrapsAdded = Len(LastRoutes)
        /\ OneHandlePerCombination
        /\ \A p \in 1 .. Len(LastRoutes), m \in 1 .. Len(LastMethods) :
              HandleOf(p, m).handler = lastAddRoute[1].wrapsBefore + p

C18_Witness ==
    /\ AddRouteJustReturned
    /\ Len(LastRoutes) = 2
    /\ Len(LastMethods) = 2
    /\ WrapsAdded = 2
    /\ HandlesAdded = 4

\* C19: the listener goroutine never calls ListenAndServe on svr after the
\* watcher has set svr to nil, in every interleaving, the ones in which the
\* stop-request is pending when runHTTPServer starts the goroutines included.
C19_NoListenOnNilServer ==
    \A s \in Servers : pcListener[s] # "panicked"

\* The watchers that have received the stop-request and not yet re-sent it.
Holders == {s \in Servers : pcWatcher[s] \in {"check", "setNil", "resend"}}

\* The goroutines that are at a send on sendChan.
AtSend == (IF pcCoord \in {"ctxSend", "send"} THEN 1 ELSE 0)
          + Cardinality({s \in Servers : pcWatcher[s] = "resend"})

\* C20: the stop-request is one conserved token: the values buffered in
\* sendChan plus the watchers that hold the value number 0 until the
\* coordinator has sent the stop-request and exactly 1 from then on; no send
\* on sendChan ever blocks (a goroutine at a send finds the slot free); when
\* all watchers have run, one value is left in sendChan.
C20_TokenConserved ==
    /\ sendChan + Cardinality(Holders) = coordSends
    /\ coordSends \in {0, 1}
    /\ sendChan <= SendChanCap
    /\ AtSend > 0 => sendChan < SendChanCap
    /\ (\A s \in Servers : pcWatcher[s] = "done") => sendChan = 1

C20_Witness ==
    /\ \A s \in Servers : pcWatcher[s] = "done"
    /\ trigger = "listener"
    /\ coordSends = 1
    /\ sendChan = 1

====
